---- MODULE Spec2Model ----
(***************************************************************************)
(* Model of src/extract_features.py (GauFRe feature extraction).           *)
(*                                                                         *)
(* The program lists the image directory, loads every image, and calls     *)
(* extract_features, which (1) scans the frames, padding each to a         *)
(* multiple of 14 and saving the padding next to the DINO feature grid,    *)
(* while tracking for every mask subdirectory the frame whose mask has the *)
(* largest sum, and (2) embeds, per subdirectory, the most visible frame   *)
(* masked by that mask, into one row of the CLIP embedding table.          *)
(*                                                                         *)
(* File and directory names are strings, modelled as sequences of          *)
(* character codes so that sorted() is a real lexicographic sort.  A mask  *)
(* file is a grey-level image [h, w, px] with px its row-major pixels.     *)
(* The files under object_mask/ are revealed to the model when the program *)
(* first opens them (variable mask_dir), and stay fixed afterwards.        *)
(* The two networks are opaque: a feature grid is modelled by its shape,   *)
(* an embedding by the name of the object it was computed for.             *)
(***************************************************************************)
EXTENDS Integers, Sequences, FiniteSets, TLC

VARIABLES
    pc,               \* position of the program
    err,              \* the exception that ended the run, "" if none
    files,            \* os.walk listing of the image directory (line 140)
    dirs,             \* os.walk listing of the mask subdirectories (line 39)
    img_list,         \* [file, H, W] per loaded image (line 166)
    mask_dir,         \* the mask files opened so far: <<dir, file>> -> image
    fi,               \* index in img_list of the frame being scanned
    di,               \* index in dirs of the next mask of that frame
    grid,             \* <<H_14, W_14>> of the last frame (line 47)
    dino_crop,        \* padding of the last frame (lines 66-71)
    dino_dir,         \* the saved feature grids and padding files
    mask,             \* the mask last opened (line 77 / 102)
    mask_data,        \* its binarized RGB array (line 81 / 105)
    most_visible,     \* the dict of line 40, in insertion order
    dir_to_idx,       \* the dict of line 90
    clip_embeddings,  \* the table of line 92, row r at position r + 1
    ei,               \* index in most_visible of the next object to embed
    masked_image,     \* the masked crop last built (line 106)
    saved             \* the embedding table written by line 113

vars == <<pc, err, files, dirs, img_list, mask_dir, fi, di, grid, dino_crop,
          dino_dir, mask, mask_data, most_visible, dir_to_idx,
          clip_embeddings, ei, masked_image, saved>>

----------------------------------------------------------------------------
(* Bounds *)

MaxFrames == 3
MaxDirs == 3
MaxMasks == 4
MaxDim == 30

(* Program constants *)

DINO_FEATURES == 768
Stride == 14

----------------------------------------------------------------------------
(* Strings *)

\* Six names; their lexicographic order is 1 < 11 < 12 < 2 < 21 < 22, which
\* differs from the order in which they are listed here.
NamePool == << <<2>>, <<1, 2>>, <<1>>, <<2, 1>>, <<1, 1>>, <<2, 2>> >>

Min2(a, b) == IF a < b THEN a ELSE b
Max2(a, b) == IF a < b THEN b ELSE a

\* Python's str comparison a < b.
StrLess(a, b) ==
    \E k \in 1..(Min2(Len(a), Len(b)) + 1) :
        /\ \A i \in 1..(k - 1) : a[i] = b[i]
        /\ \/ k > Len(a) /\ k <= Len(b)
           \/ k <= Len(a) /\ k <= Len(b) /\ a[k] < b[k]

Range(s) == {s[i] : i \in DOMAIN s}

\* The orders in which a directory holding the names S may be listed.
RECURSIVE Orders(_)
Orders(S) ==
    IF S = {} THEN {<<>>}
    ELSE UNION {{Append(t, x) : t \in Orders(S \ {x})} : x \in S}

\* The listings of a directory that holds the first k names of the pool, for
\* every k up to n.
Listings(n) ==
    UNION {Orders({NamePool[i] : i \in 1..k}) : k \in 0..Min2(n, Len(NamePool))}

\* Insert x into the sorted sequence s.
RECURSIVE Insert(_, _)
Insert(s, x) ==
    IF s = <<>> THEN <<x>>
    ELSE IF StrLess(x, s[1]) THEN <<x>> \o s
    ELSE <<s[1]>> \o Insert(Tail(s), x)

\* sorted(s) for a list of strings.
RECURSIVE sorted(_)
sorted(s) == IF s = <<>> THEN <<>> ELSE Insert(sorted(Tail(s)), s[1])

----------------------------------------------------------------------------
(* Grid alignment, lines 47-53 *)

\* math.ceil(n / d) and math.floor(n / d) for an integer n and d > 0.
ceil(n, d) == -((-n) \div d)
floor(n, d) == n \div d

StrideAlign_floor(n) == floor(n, Stride) * Stride
\* ceil(H / 14) * 14
StrideAlign(n) == ceil(n, Stride) * Stride

\* ceil((H_14 - H) / 2): padding_top, padding_left
PadBefore(aligned, n) == ceil(aligned - n, 2)

PadAfter_ceil(aligned, n) == ceil(aligned - n, 2)
\* floor((H_14 - H) / 2): padding_bottom, padding_right
PadAfter(aligned, n) == floor(aligned - n, 2)

\* The dict dino_crop of lines 66-71.
DinoCrop(H, W) ==
    [padding_top    |-> PadBefore(StrideAlign(H), H),
     padding_bottom |-> PadAfter(StrideAlign(H), H),
     padding_left   |-> PadBefore(StrideAlign(W), W),
     padding_right  |-> PadAfter(StrideAlign(W), W)]

\* The assertion of lines 50-53.
PaddingAssert(H, W, crop) ==
    /\ H + crop.padding_top + crop.padding_bottom = StrideAlign(H)
    /\ W + crop.padding_left + crop.padding_right = StrideAlign(W)

\* Shape of the array saved by line 72 (reshape of lines 62-65).
DinoShape(H, W) ==
    <<StrideAlign(H) \div Stride, StrideAlign(W) \div Stride, DINO_FEATURES>>

NoCrop == [padding_top |-> 0, padding_bottom |-> 0,
           padding_left |-> 0, padding_right |-> 0]

----------------------------------------------------------------------------
(* Masks, lines 77-85 and 102-106 *)

\* No file at the path.
NoFile == [h |-> 0, w |-> 0, px |-> <<>>]

\* Frames are 1 x 2 in the pipeline specification; the masks that may lie
\* under object_mask/: all-zero, half covered, fully covered, a soft edge
\* (128 next to 255), and two masks whose size is not the frame's.
FrameShapes == {<<1, 2>>}

MaskSet ==
    {[h |-> 1, w |-> 2, px |-> <<0, 0>>],
     [h |-> 1, w |-> 2, px |-> <<0, 255>>],
     [h |-> 1, w |-> 2, px |-> <<255, 255>>],
     [h |-> 1, w |-> 2, px |-> <<128, 255>>],
     [h |-> 1, w |-> 1, px |-> <<255>>],
     [h |-> 1, w |-> 3, px |-> <<255, 255, 255>>]}

\* np.array(mask.convert("RGB")) of a grey-level image: the array of shape
\* (h, w, 3), flattened, each pixel repeated over the three channels.
ToRGB(m) == [i \in 1..(3 * Len(m.px)) |-> m.px[((i - 1) \div 3) + 1]]

RECURSIVE ArrayMax(_)
ArrayMax(a) == IF a = <<>> THEN 0 ELSE Max2(a[1], ArrayMax(Tail(a)))

RECURSIVE ArraySum(_)
ArraySum(a) == IF a = <<>> THEN 0 ELSE a[1] + ArraySum(Tail(a))

\* mask_data //= max(1, mask_data.max())
Binarize(a) ==
    LET divisor == Max2(1, ArrayMax(a))
    IN  [i \in DOMAIN a |-> a[i] \div divisor]

\* mask_data after lines 80-81.
MaskData(m) == Binarize(ToRGB(m))

\* numpy broadcasting of mask_data (h, w, 3) against the image (H, W, 3) in
\* mask_data * image (line 106): each axis equal, or one of the two is 1.
Broadcastable(m, H, W) ==
    /\ m.h = H \/ m.h = 1 \/ H = 1
    /\ m.w = W \/ m.w = 1 \/ W = 1

NoImage == [dir |-> <<>>, file |-> <<>>, h |-> 0, w |-> 0, mh |-> 0, mw |-> 0]

----------------------------------------------------------------------------
(* The dict most_visible, lines 40 and 82-85; entries [dir, score, file] *)

HasKey(mv, d) == \E i \in DOMAIN mv : mv[i].dir = d

Lookup(mv, d) == mv[CHOOSE i \in DOMAIN mv : mv[i].dir = d]

Keys(mv) == {mv[i].dir : i \in DOMAIN mv}

Replaces_ge(new, old) == new >= old
\* mask_data.sum() > most_visible[dir][0]
Replaces(new, old) == new > old

Store(mv, d, score, file) ==
    IF ~HasKey(mv, d)
    THEN Append(mv, [dir |-> d, score |-> score, file |-> file])
    ELSE [i \in DOMAIN mv |->
            IF mv[i].dir = d /\ Replaces(score, mv[i].score)
            THEN [dir |-> d, score |-> score, file |-> file]
            ELSE mv[i]]

Update_positive(mv, d, score, file) ==
    IF ~HasKey(mv, d) /\ score = 0 THEN mv ELSE Store(mv, d, score, file)
\* Lines 82-85.
Update(mv, d, score, file) == Store(mv, d, score, file)

DirToIdx_from1(ds) ==
    [d \in Range(ds) |-> CHOOSE i \in DOMAIN ds : sorted(ds)[i] = d]
DirToIdx_listing(ds) == [d \in Range(ds) |-> (CHOOSE i \in DOMAIN ds : ds[i] = d) - 1]
\* {dir_name: idx for idx, dir_name in enumerate(sorted(dirs))}
DirToIdx(ds) ==
    [d \in Range(ds) |-> (CHOOSE i \in DOMAIN ds : sorted(ds)[i] = d) - 1]

\* np.zeros((n, CLIP_FEATURES)); a zero row is <<>>.
Zeros(n) == [r \in 1..n |-> <<>>]

----------------------------------------------------------------------------
(* The program *)

NoMasks == [k \in {} |-> NoFile]

Init ==
    /\ pc = "main"
    /\ err = ""
    /\ files \in Listings(MaxFrames)
    /\ dirs \in Listings(MaxDirs)
    /\ Len(files) * Len(dirs) <= MaxMasks
    /\ img_list = <<>>
    /\ mask_dir = NoMasks
    /\ fi = 0
    /\ di = 0
    /\ grid = <<0, 0>>
    /\ dino_crop = NoCrop
    /\ dino_dir = {}
    /\ mask = NoFile
    /\ mask_data = <<>>
    /\ most_visible = <<>>
    /\ dir_to_idx = [d \in {} |-> 0]
    /\ clip_embeddings = <<>>
    /\ ei = 0
    /\ masked_image = NoImage
    /\ saved = <<>>

\* Lines 143-166: one iteration of the loading loop, for an image of a shape
\* in shapes that needs no rescaling (scale = 1).
LoadImage(shapes) ==
    /\ pc = "main"
    /\ Len(img_list) < Len(files)
    /\ \E shape \in shapes :
         img_list' = Append(img_list, [file |-> files[Len(img_list) + 1],
                                       H |-> shape[1], W |-> shape[2]])
    /\ UNCHANGED <<pc, err, files, dirs, mask_dir, fi, di, grid, dino_crop,
                   dino_dir, mask, mask_data, most_visible, dir_to_idx,
                   clip_embeddings, ei, masked_image, saved>>

\* Line 168 and lines 33-41: the call of extract_features.
StartExtract ==
    /\ pc = "main"
    /\ Len(img_list) = Len(files)
    /\ pc' = "scan"
    /\ fi' = 1
    /\ most_visible' = <<>>
    /\ UNCHANGED <<err, files, dirs, img_list, mask_dir, di, grid, dino_crop,
                   dino_dir, mask, mask_data, dir_to_idx, clip_embeddings,
                   ei, masked_image, saved>>

\* Lines 43-74: the head of the frame loop, up to the two saved files.
ScanFrame ==
    /\ pc = "scan"
    /\ fi <= Len(img_list)
    /\ LET frame == img_list[fi]
           crop == DinoCrop(frame.H, frame.W)
       IN  /\ grid' = <<StrideAlign(frame.H), StrideAlign(frame.W)>>
           /\ IF PaddingAssert(frame.H, frame.W, crop)
              THEN /\ dino_crop' = crop
                   /\ dino_dir' = dino_dir \cup
                         {[file |-> frame.file,
                           shape |-> DinoShape(frame.H, frame.W),
                           crop |-> crop]}
                   /\ pc' = "masks"
                   /\ di' = 1
                   /\ err' = err
              ELSE /\ pc' = "abort"
                   /\ err' = "AssertionError"
                   /\ UNCHANGED <<dino_crop, dino_dir, di>>
    /\ UNCHANGED <<files, dirs, img_list, mask_dir, fi, mask, mask_data,
                   most_visible, dir_to_idx, clip_embeddings, ei,
                   masked_image, saved>>

\* Lines 75-85: one iteration of the loop over the mask subdirectories.  The
\* file at the mask path is whatever the mask tree holds there: a mask of
\* MaskSet, or nothing, and then Image.open raises.
ScanMask ==
    /\ pc = "masks"
    /\ di <= Len(dirs)
    /\ LET dir == dirs[di]
           file == img_list[fi].file
       IN  \E m \in MaskSet \cup {NoFile} :
             /\ mask_dir' = [k \in DOMAIN mask_dir \cup {<<dir, file>>} |->
                               IF k = <<dir, file>> THEN m ELSE mask_dir[k]]
             /\ IF m = NoFile
                THEN /\ pc' = "abort"
                     /\ err' = "FileNotFoundError"
                     /\ UNCHANGED <<di, mask, mask_data, most_visible>>
                ELSE /\ mask' = m
                     /\ mask_data' = MaskData(m)
                     /\ most_visible' =
                           Update(most_visible, dir, ArraySum(MaskData(m)), file)
                     /\ di' = di + 1
                     /\ UNCHANGED <<pc, err>>
    /\ UNCHANGED <<files, dirs, img_list, fi, grid, dino_crop, dino_dir,
                   dir_to_idx, clip_embeddings, ei, masked_image, saved>>

\* Line 86: the frame is done.
NextFrame ==
    /\ pc = "masks"
    /\ di > Len(dirs)
    /\ pc' = "scan"
    /\ fi' = fi + 1
    /\ UNCHANGED <<err, files, dirs, img_list, mask_dir, di, grid, dino_crop,
                   dino_dir, mask, mask_data, most_visible, dir_to_idx,
                   clip_embeddings, ei, masked_image, saved>>

\* Lines 87-93: the scan is over; the row of each directory and the table.
EndScan ==
    /\ pc = "scan"
    /\ fi > Len(img_list)
    /\ dir_to_idx' = DirToIdx(dirs)
    /\ clip_embeddings' = Zeros(Len(most_visible))
    /\ ei' = 1
    /\ pc' = "embed"
    /\ UNCHANGED <<err, files, dirs, img_list, mask_dir, fi, di, grid,
                   dino_crop, dino_dir, mask, mask_data, most_visible,
                   masked_image, saved>>

\* The image file of a frame, as loaded by line 97.
ImageOf(file) == img_list[CHOOSE i \in DOMAIN img_list : img_list[i].file = file]

\* Lines 94-111: one iteration of the embedding loop.
EmbedObject ==
    /\ pc = "embed"
    /\ ei <= Len(most_visible)
    /\ LET dir == most_visible[ei].dir
           file == most_visible[ei].file
           image == ImageOf(file)
           m == mask_dir[<<dir, file>>]
           row == dir_to_idx[dir]
       IN  /\ mask' = m
           /\ mask_data' = MaskData(m)
           /\ IF ~Broadcastable(m, image.H, image.W)
              THEN /\ pc' = "abort"
                   /\ err' = "ValueError"
                   /\ UNCHANGED <<masked_image, clip_embeddings, ei>>
              ELSE /\ masked_image' =
                         [dir |-> dir, file |-> file,
                          h |-> Max2(m.h, image.H), w |-> Max2(m.w, image.W),
                          mh |-> m.h, mw |-> m.w]
                   /\ IF row >= Len(clip_embeddings)
                      THEN /\ pc' = "abort"
                           /\ err' = "IndexError"
                           /\ UNCHANGED <<clip_embeddings, ei>>
                      ELSE /\ clip_embeddings' =
                                 [clip_embeddings EXCEPT ![row + 1] = dir]
                           /\ ei' = ei + 1
                           /\ UNCHANGED <<pc, err>>
    /\ UNCHANGED <<files, dirs, img_list, mask_dir, fi, di, grid, dino_crop,
                   dino_dir, most_visible, dir_to_idx, saved>>

\* Lines 112-113: the table is written once, after the loop.
SaveEmbeddings ==
    /\ pc = "embed"
    /\ ei > Len(most_visible)
    /\ saved' = clip_embeddings
    /\ pc' = "done"
    /\ UNCHANGED <<err, files, dirs, img_list, mask_dir, fi, di, grid,
                   dino_crop, dino_dir, mask, mask_data, most_visible,
                   dir_to_idx, clip_embeddings, ei, masked_image>>

Next ==
    \/ LoadImage(FrameShapes)
    \/ StartExtract
    \/ ScanFrame
    \/ ScanMask
    \/ NextFrame
    \/ EndScan
    \/ EmbedObject
    \/ SaveEmbeddings

Spec == Init /\ [][Next]_vars

----------------------------------------------------------------------------
(* Grid alignment alone: one frame of any size up to MaxDim, or of one of  *)
(* the sizes 100, 101, 150, and no mask subdirectory.                      *)

GridDims == (1..MaxDim) \cup {100, 101, 150}

GridShapes == GridDims \X GridDims

InitGrid ==
    /\ Init
    /\ Len(files) = 1
    /\ dirs = <<>>

NextGrid ==
    \/ LoadImage(GridShapes)
    \/ StartExtract
    \/ ScanFrame
    \/ NextFrame
    \/ EndScan
    \/ SaveEmbeddings

SpecGrid == InitGrid /\ [][NextGrid]_vars

----------------------------------------------------------------------------
(* Vocabulary of the properties *)

\* The scan and the embedding pass have both been passed or entered.
ScanDone == pc \in {"embed", "done"}

\* The frame whose masks are being scanned.
Frame == img_list[fi]

\* The mask files of directory d that the scan has read, as indices of their
\* frames in the scan order.
Observed(d) ==
    {i \in DOMAIN img_list :
        /\ <<d, img_list[i].file>> \in DOMAIN mask_dir
        /\ mask_dir[<<d, img_list[i].file>>] # NoFile}

\* mask_data.sum() for every mask of MaskSet.
MaskSum == [m \in MaskSet |-> ArraySum(MaskData(m))]

\* The score the scan computed for directory d in frame i.
Score(d, i) == MaskSum[mask_dir[<<d, img_list[i].file>>]]

\* The number of strings of S that sort before d.
Rank(S, d) == Cardinality({e \in S : StrLess(e, d)})

WrittenRows == {r \in DOMAIN clip_embeddings : clip_embeddings[r] # <<>>}

----------------------------------------------------------------------------
(* C1 *)

\* C1: for every frame size H, W >= 1 the scan computes H_14 and W_14 as the
\* smallest multiples of 14 that are >= H and >= W and four non-negative
\* paddings with top + bottom = H_14 - H, left + right = W_14 - W,
\* top - bottom in {0, 1} and left - right in {0, 1}; the assertion of lines
\* 50-53 never fails; H = 100, W = 150 gives 112, 154 and 6, 6, 2, 2.
C1_GridAligner ==
    /\ err # "AssertionError"
    /\ pc = "masks" =>
         LET H == Frame.H
             W == Frame.W
             c == dino_crop
         IN  /\ grid[1] % 14 = 0 /\ grid[1] >= H /\ grid[1] - 14 < H
             /\ grid[2] % 14 = 0 /\ grid[2] >= W /\ grid[2] - 14 < W
             /\ c.padding_top >= 0 /\ c.padding_bottom >= 0
             /\ c.padding_left >= 0 /\ c.padding_right >= 0
             /\ c.padding_top + c.padding_bottom = grid[1] - H
             /\ c.padding_left + c.padding_right = grid[2] - W
             /\ c.padding_top - c.padding_bottom \in {0, 1}
             /\ c.padding_left - c.padding_right \in {0, 1}
             /\ (H = 100 /\ W = 150) =>
                  /\ grid = <<112, 154>>
                  /\ c = [padding_top |-> 6, padding_bottom |-> 6,
                          padding_left |-> 2, padding_right |-> 2]

\* The frame of 100 x 150 has been aligned to 112 x 154 with paddings 6 and 2.
C1_Witness ==
    /\ pc = "masks"
    /\ Frame.H = 100 /\ Frame.W = 150
    /\ grid = <<112, 154>>
    /\ dino_crop.padding_top = 6 /\ dino_crop.padding_right = 2

----------------------------------------------------------------------------
(* C7 *)

\* C7: for every saved frame of size H x W and every pixel (y, x) with
\* 0 <= y < H and 0 <= x < W, the cell ((y + padding_top) // 14,
\* (x + padding_left) // 14) computed from the saved padding is a cell of the
\* saved feature grid of shape (H_14 / 14, W_14 / 14, 768).
C7_CellInGrid ==
    \A e \in dino_dir :
        LET f == ImageOf(e.file)
        IN  /\ e.shape[3] = 768
            /\ \A y \in 0..(f.H - 1) :
                 /\ 0 <= (y + e.crop.padding_top) \div 14
                 /\ (y + e.crop.padding_top) \div 14 < e.shape[1]
            /\ \A x \in 0..(f.W - 1) :
                 /\ 0 <= (x + e.crop.padding_left) \div 14
                 /\ (x + e.crop.padding_left) \div 14 < e.shape[2]

\* A saved frame of height 15 and width 101: the grid has 2 x 8 cells, the
\* top padding (7) is larger than the bottom one (6), and the last pixel row
\* and column fall into the last cell row and column.
C7_Witness ==
    \E e \in dino_dir :
        LET f == ImageOf(e.file)
        IN  /\ f.H = 15 /\ f.W = 101
            /\ e.shape = <<2, 8, 768>>
            /\ e.crop.padding_top = 7 /\ e.crop.padding_bottom = 6
            /\ (f.H - 1 + e.crop.padding_top) \div 14 = 1
            /\ (f.W - 1 + e.crop.padding_left) \div 14 = 7

----------------------------------------------------------------------------
(* C2 *)

\* C2: the record (score, frame) of an object is replaced only when the new
\* score is strictly greater than the stored one: the stored score never
\* decreases, a score of 0 never overwrites a positive one, and after the
\* scan each record holds the largest score over the scanned frames with the
\* first frame, in scan order, that attained it.
\* As a property of every state of the scan: the record of an object is one
\* of the frames w observed for it, with its score; no observed frame has a
\* greater score, and every frame observed before w has a strictly smaller
\* one (so no later frame of an equal or smaller score has replaced w).
C2_StrictlyGreaterWins ==
    \A k \in DOMAIN most_visible :
        LET r == most_visible[k]
        IN  \E w \in Observed(r.dir) :
              /\ r.file = img_list[w].file
              /\ r.score = Score(r.dir, w)
              /\ \A i \in Observed(r.dir) :
                   /\ Score(r.dir, i) <= r.score
                   /\ i < w => Score(r.dir, i) < r.score

\* One object scanned over three frames with scores 6, 6, 3 (a tie at the
\* first two): the record is the first frame with score 6.
C2_Witness ==
    /\ ScanDone
    /\ Len(img_list) = 3
    /\ \E d \in Range(dirs) :
         /\ Observed(d) = {1, 2, 3}
         /\ <<Score(d, 1), Score(d, 2), Score(d, 3)>> = <<6, 6, 3>>
         /\ Lookup(most_visible, d).score = 6
         /\ Lookup(most_visible, d).file = img_list[1].file

----------------------------------------------------------------------------
(* C5 *)

\* C5: the embedding of an object is written to the row whose index is the
\* position of its name among the sorted names of all mask subdirectories,
\* whatever the order in which the subdirectories were listed and the
\* records are iterated.
C5_RowIsSortedPosition ==
    /\ \A r \in WrittenRows :
         /\ clip_embeddings[r] \in Range(dirs)
         /\ r - 1 = Rank(Range(dirs), clip_embeddings[r])
    /\ pc = "done" => saved = clip_embeddings

\* Three objects listed as 2, 12, 1 (not the sorted order) and embedded in
\* that order: the saved rows are those of 1, 12, 2.
C5_Witness ==
    /\ pc = "done"
    /\ dirs = << <<2>>, <<1, 2>>, <<1>> >>
    /\ [k \in DOMAIN most_visible |-> most_visible[k].dir] = dirs
    /\ saved = << <<1>>, <<1, 2>>, <<2>> >>

----------------------------------------------------------------------------
(* C10 *)

\* C10: every row index written in the embedding pass is smaller than the
\* number of rows of the table (the number of records), and no two objects
\* write the same row: after a scan over at least one frame the objects that
\* hold a record are exactly the discovered ones, and after a scan over no
\* frame there is no record and no write.
C10_RowsInRange ==
    /\ err # "IndexError"
    /\ (ScanDone \/ err = "ValueError") =>
         /\ Len(clip_embeddings) = Len(most_visible)
         /\ Len(img_list) >= 1 => Keys(most_visible) = Range(dirs)
         /\ Len(img_list) = 0 => most_visible = <<>> /\ WrittenRows = {}
         /\ Cardinality(WrittenRows) = ei - 1
         /\ \A k \in 1..(ei - 1) :
              /\ dir_to_idx[most_visible[k].dir] < Len(clip_embeddings)
              /\ clip_embeddings[dir_to_idx[most_visible[k].dir] + 1]
                   = most_visible[k].dir

\* Three objects, the one sorted first with an all-zero mask: all three hold
\* a record and all three rows are written.
C10_Witness ==
    /\ pc = "done"
    /\ Len(dirs) = 3
    /\ Len(most_visible) = 3
    /\ Lookup(most_visible, <<1>>).score = 0
    /\ Lookup(most_visible, <<2>>).score > 0
    /\ WrittenRows = {1, 2, 3}

----------------------------------------------------------------------------
(* C3 *)

\* C3: when an object has no mask file for some frame, that pair is skipped
\* and is no error: the scan goes on with the other objects and frames.
C3_MissingMaskSkipped ==
    \A k \in DOMAIN mask_dir :
        mask_dir[k] = NoFile => (pc # "abort" /\ err = "")

----------------------------------------------------------------------------
(* C4 *)

\* The objects observed at least once with a score that is not 0.
SeenNonzero == {d \in Range(dirs) : \E i \in Observed(d) : Score(d, i) > 0}

\* The objects for which at least one mask file was read.
Seen == {d \in Range(dirs) : Observed(d) # {}}

----------------------------------------------------------------------------
(* C6 *)

\* The frame a scan in sorted file name order selects for d: among the
\* frames with the largest score, the one whose name sorts first.
SortedWinner(d) ==
    CHOOSE i \in Observed(d) :
        /\ \A j \in Observed(d) : Score(d, j) <= Score(d, i)
        /\ \A j \in Observed(d) :
             Score(d, j) = Score(d, i) /\ j # i =>
                StrLess(img_list[i].file, img_list[j].file)

\* C6: the scan visits the frames in sorted file name order, so the frame
\* selected for every object, ties included, is the same for every order in
\* which the image directory lists its files.
C6_SortedScanOrder ==
    ScanDone =>
        \A k \in DOMAIN most_visible :
            most_visible[k].file =
                img_list[SortedWinner(most_visible[k].dir)].file

----------------------------------------------------------------------------
(* C8 *)

\* C8: binarization maps every positive mask value to 1 and every 0 to 0,
\* whatever the mix of values in the mask, and the score is the number of
\* positive elements over the three channels (0 for an all-zero mask).
C8_PositiveBecomesOne ==
    mask # NoFile =>
        /\ DOMAIN mask_data = DOMAIN ToRGB(mask)
        /\ \A i \in DOMAIN mask_data :
             mask_data[i] = IF ToRGB(mask)[i] > 0 THEN 1 ELSE 0
        /\ ArraySum(mask_data) =
             Cardinality({i \in DOMAIN mask_data : ToRGB(mask)[i] > 0})

----------------------------------------------------------------------------
(* C9 *)

\* The mask read for directory d and the frame named file has the size of
\* that frame.
SameShape(d, file) ==
    /\ mask_dir[<<d, file>>].h = ImageOf(file).H
    /\ mask_dir[<<d, file>>].w = ImageOf(file).W

\* C9: a mask whose size is not that of its frame aborts the run: no record
\* is created or replaced from the score of such a mask, and no masked crop
\* is built from one.
C9_ShapeMismatchFatal ==
    /\ \A k \in DOMAIN most_visible :
         SameShape(most_visible[k].dir, most_visible[k].file)
    /\ masked_image # NoImage =>
         /\ masked_image.mh = masked_image.h
         /\ masked_image.mw = masked_image.w
         /\ SameShape(masked_image.dir, masked_image.file)

====
